---- MODULE Spec2Model ----
(***************************************************************************)
(* A model of go-dict (src/go-dict.go): the grouping of context            *)
(* definitions by dictionary (byDictionary), their rendering               *)
(* (pprintCtxDefs), the rank assignment of the extraction loop             *)
(* (wordnikLookup) and the concurrent per-word lookup of main.             *)
(*                                                                         *)
(* Three specifications share the variables:                               *)
(*   Spec / FairSpec  main and its lookup goroutines                       *)
(*   GroupSpec        byDictionary and pprintCtxDefs as pure functions     *)
(*   ExtractSpec      the two nested Each loops of wordnikLookup           *)
(***************************************************************************)
EXTENDS Integers, Sequences, FiniteSets, TLC

VARIABLES
    \* ---- main and its goroutines
    words,      \* os.Args[1:]
    resp,       \* what wordnik answers to the request of the i-th goroutine
    mpc,        \* where main is
    mi,         \* the loop index of main (launch loop, then print loop)
    results,    \* the slice of result channels, as main has built it so far
    tpc,        \* where each goroutine is
    tdefs,      \* each goroutine's local defs
    tchan,      \* the channel each goroutine picked with results[ind]
    sent,       \* per channel: the goroutines that completed a send on it
    rcvd,       \* per channel: how many values main received from it
    got,        \* the value main received last (the argument of pprintCtxDefs)
    out,        \* what was written to standard output
    returned,   \* the goroutines in the order their lookups returned
    aborted,    \* a goroutine panicked: the process is gone
    abortedBy,  \* the goroutine whose panic ended the process (-1: none)
    \* ---- byDictionary / pprintCtxDefs as functions
    gpc,        \* "input", "grouped", "regrouped", "printed"
    cDs,        \* the argument
    m,          \* the map byDictionary returned
    flat,       \* the map flattened back into ctxDefinitions
    m2,         \* byDictionary of flat
    lines,      \* what pprintCtxDefs wrote
    oob,        \* pprintCtxDefs indexed defs[0] of an empty slice
    \* ---- the extraction loop of wordnikLookup
    xpc,        \* "loop", "done"
    doc,        \* the lists of the active module: heading and number of items
    xi,         \* index of the list being visited
    xj,         \* index of the item being visited
    ret         \* the slice being built

mainVars == <<words, resp, mpc, mi, results, tpc, tdefs, tchan, sent, rcvd, got, out,
              returned, aborted, abortedBy>>
groupVars == <<gpc, cDs, m, flat, m2, lines, oob>>
extractVars == <<xpc, doc, xi, xj, ret>>
vars == <<mainVars, groupVars, extractVars>>

----------------------------------------------------------------------------
(* Bounds *)

MaxWords == 2
MaxLen == 3
MaxSortLen == 8
MaxLists == 2

----------------------------------------------------------------------------
(* Data model: definition and ctxDefinition (a rank is a uint8) *)

UInt8Mod == 256

uint8(n) == n % UInt8Mod

definition(wT, t) == [wordType |-> wT, text |-> t]

ctxDefinition(d, r, df) == [dict |-> d, rank |-> r, def |-> df]

Range(s) == {s[k] : k \in 1..Len(s)}

Swap(s, a, b) == [s EXCEPT ![a] = s[b], ![b] = s[a]]

----------------------------------------------------------------------------
(* sort.Slice(pre[k], func(i, j) { return pre[k][i].rank < pre[k][j].rank }) *)
(* Indices are 1-based here.  The library sorts a slice of at most 12       *)
(* elements by insertion sort, which releases before Go 1.19 precede with   *)
(* one pass of Shell sort with gap 6: both are outcomes of the call.  The   *)
(* slices sorted here have at most 12 elements.                             *)

ShellGap == 6

lessReversed(s, a, b) == s[a].rank > s[b].rank

lessOrEqual(s, a, b) == s[a].rank <= s[b].rank

\* the less function given to sort.Slice

less(s, a, b) == s[a].rank < s[b].rank

RECURSIVE insertDown(_, _)
insertDown(s, j) ==
    IF j > 1 /\ less(s, j, j - 1) THEN insertDown(Swap(s, j, j - 1), j - 1) ELSE s

RECURSIVE insertionSortFrom(_, _)
insertionSortFrom(s, k) ==
    IF k > Len(s) THEN s ELSE insertionSortFrom(insertDown(s, k), k + 1)

insertionSort(s) == insertionSortFrom(s, 2)

RECURSIVE shellPassFrom(_, _)
shellPassFrom(s, k) ==
    IF k > Len(s) THEN s
    ELSE shellPassFrom(IF less(s, k, k - ShellGap) THEN Swap(s, k, k - ShellGap) ELSE s,
                       k + 1)

shellPass(s) == shellPassFrom(s, ShellGap + 1)

SortSliceNoSort(s) == {s}

\* the orders sort.Slice can leave s in
SortSlice(s) ==
    IF Len(s) <= 1 THEN {s}
    ELSE {insertionSort(s), insertionSort(shellPass(s))}

----------------------------------------------------------------------------
(* byDictionary *)

dictsOf(s) == {s[k].dict : k \in 1..Len(s)}

preOf(s) == [d \in dictsOf(s) |-> SelectSeq(s, LAMBDA cD : cD.dict = d)]

defsOf(s) == [k \in 1..Len(s) |-> s[k].def]

groupOutcomes(s, d) == {defsOf(o) : o \in SortSlice(preOf(s)[d])}

byDictionaryAllDicts(s) ==
    {[d \in {"A", "B"} |-> IF d \in dictsOf(s) THEN mp[d] ELSE <<>>] :
        mp \in {f \in [dictsOf(s) -> UNION {groupOutcomes(s, d) : d \in dictsOf(s)}] :
                   \A d \in dictsOf(s) : f[d] \in groupOutcomes(s, d)}}

\* The maps byDictionary can return for s: one per outcome of the sort calls.
byDictionary(s) ==
    {mp \in [dictsOf(s) -> UNION {groupOutcomes(s, d) : d \in dictsOf(s)}] :
        \A d \in dictsOf(s) : mp[d] \in groupOutcomes(s, d)}

----------------------------------------------------------------------------
(* definition.render, definition.renderOps, pprintCtxDefs *)
(* A line is its style and its tab-separated cells.        *)

Line(st, cs) == [style |-> st, cells |-> cs]

render(d, c) ==
    IF c THEN Line("OpItalic", <<d.wordType, d.text>>)
    ELSE Line("plain", <<d.wordType, d.text>>)

renderOps(d) == Line("OpItalic+OpBold/Cyan", <<d.wordType, "", d.text>>)

Perms(S) == {p \in [1..Cardinality(S) -> S] : \A x \in S : \E k \in 1..Cardinality(S) : p[k] = x}

RECURSIVE Concat(_)
Concat(ss) == IF ss = <<>> THEN <<>> ELSE Head(ss) \o Concat(Tail(ss))

\* the body of the loop over the map, for one key
pprintGroup(dict, defs, c) ==
    IF c
    THEN <<Line("BgGray", <<dict>>)>>
         \o (IF Len(defs) > 0 THEN <<renderOps(defs[1])>> ELSE <<>>)
         \o [k \in 1..(Len(defs) - 1) |-> render(defs[k + 1], TRUE)]
         \o <<Line("plain", <<>>)>>
    ELSE <<Line("plain", <<dict>>)>>
         \o [k \in 1..Len(defs) |-> render(defs[k], FALSE)]
         \o <<Line("plain", <<>>)>>

\* defs[0] of an empty slice: index out of range
pprintPanics(mp, c) == c /\ \E d \in DOMAIN mp : Len(mp[d]) = 0

\* what one call writes, the keys of the map being visited in the given order
pprintLines(mp, order, c) ==
    Concat([k \in 1..Len(order) |-> pprintGroup(order[k], mp[order[k]], c)])

\* every output pprintCtxDefs(s, c) can flush
pprintCtxDefs(s, c) ==
    {pprintLines(mp, order, c) : <<mp, order>> \in
        UNION {{<<g, o>> : o \in Perms(DOMAIN g)} : g \in byDictionary(s)}}

----------------------------------------------------------------------------
(* GroupSpec: byDictionary and pprintCtxDefs applied to bounded inputs *)

Dicts == {"A", "B"}
Ranks == {0, 1}
Defs == {definition("noun", "x"), definition("verb", "y")}
Items == {ctxDefinition(d, r, df) : d \in Dicts, r \in Ranks, df \in Defs}

SeqsUpTo(S, n) == UNION {[1..k -> S] : k \in 0..n}

\* every sequence of at most MaxLen items
GeneralInputs == SeqsUpTo(Items, MaxLen)

\* the ranks wordnikLookup gives to the items of n > 0 items in all: every
\* list numbers its items from 0
RECURSIVE RunRanks(_)
RunRanks(n) ==
    IF n = 1 THEN {<<0>>}
    ELSE UNION {{Append(rs, 0), Append(rs, rs[n - 1] + 1)} : rs \in RunRanks(n - 1)}

\* longer inputs: the items of several lists under the same heading, every
\* definition different from the others
LongInputs ==
    {[k \in 1..Len(rs) |-> ctxDefinition("A", rs[k], definition("noun", ToString(k)))] :
        rs \in UNION {RunRanks(n) : n \in (MaxLen + 1)..MaxSortLen}}

Reverse(s) == [k \in 1..Len(s) |-> s[Len(s) + 1 - k]]

\* the map as ctxDefinitions again, the rank of a definition being its position
flattenGroup(mp, d) == [k \in 1..Len(mp[d]) |-> ctxDefinition(d, uint8(k - 1), mp[d][k])]

Flatten(mp) ==
    UNION {{Concat([k \in 1..Len(o) |-> flattenGroup(mp, o[k])]),
            Reverse(Concat([k \in 1..Len(o) |-> flattenGroup(mp, o[k])]))} :
           o \in Perms(DOMAIN mp)}

GroupIdle == /\ gpc = "idle" /\ cDs = <<>> /\ m = <<>> /\ flat = <<>> /\ m2 = <<>>
             /\ lines = <<>> /\ oob = FALSE
MainIdle == /\ words = <<>> /\ resp = <<>> /\ mpc = "idle" /\ mi = 0 /\ results = <<>>
            /\ tpc = <<>> /\ tdefs = <<>> /\ tchan = <<>> /\ sent = <<>> /\ rcvd = <<>>
            /\ got = <<>> /\ out = <<>> /\ returned = <<>> /\ aborted = FALSE /\ abortedBy = -1
ExtractIdle == /\ xpc = "idle" /\ doc = <<>> /\ xi = 0 /\ xj = 0 /\ ret = <<>>

GroupInit ==
    /\ cDs \in GeneralInputs \cup LongInputs
    /\ gpc = "input" /\ m = <<>> /\ flat = <<>> /\ m2 = <<>> /\ lines = <<>> /\ oob = FALSE
    /\ MainIdle /\ ExtractIdle

\* m := byDictionary(cDs)
Group ==
    /\ gpc = "input"
    /\ \E mp \in byDictionary(cDs) : m' = mp
    /\ gpc' = "grouped"
    /\ UNCHANGED <<cDs, flat, m2, lines, oob, mainVars, extractVars>>

\* flatten m, rank by position, and group again
Regroup ==
    /\ gpc = "grouped"
    /\ \E f \in Flatten(m) : /\ flat' = f
                            /\ \E mp \in byDictionary(f) : m2' = mp
    /\ gpc' = "regrouped"
    /\ UNCHANGED <<cDs, m, lines, oob, mainVars, extractVars>>

\* pprintCtxDefs(cDs, c): groups, then writes group by group in map order;
\* nothing is flushed when defs[0] panics
Pprint ==
    /\ gpc = "input"
    /\ \E c \in BOOLEAN : \E mp \in byDictionary(cDs) : \E o \in Perms(DOMAIN mp) :
          /\ m' = mp
          /\ oob' = pprintPanics(mp, c)
          /\ lines' = IF pprintPanics(mp, c) THEN <<>> ELSE pprintLines(mp, o, c)
    /\ gpc' = "printed"
    /\ UNCHANGED <<cDs, flat, m2, mainVars, extractVars>>

GroupNext == Group \/ Regroup \/ Pprint

GroupSpec == GroupInit /\ [][GroupNext]_vars

----------------------------------------------------------------------------
(* Properties of byDictionary and pprintCtxDefs (GroupSpec) *)

countIn(s, x) == Cardinality({k \in 1..Len(s) : s[k] = x})

SameBag(a, b) ==
    /\ Len(a) = Len(b)
    /\ \A x \in Range(a) \cup Range(b) : countIn(a, x) = countIn(b, x)

withDict(s, d) == SelectSeq(s, LAMBDA cD : cD.dict = d)
withRank(s, r) == SelectSeq(s, LAMBDA cD : cD.rank = r)
ranksOf(s) == {s[k].rank : k \in 1..Len(s)}
below(s, r) == Cardinality({k \in 1..Len(s) : s[k].rank < r})

\* g holds the definitions of the items s, rank by rank in ascending order,
\* the definitions of one rank in any order
AscendingByRank(g, s) ==
    /\ Len(g) = Len(s)
    /\ \A r \in ranksOf(s) :
          SameBag(SubSeq(g, below(s, r) + 1, below(s, r) + Len(withRank(s, r))),
                  defsOf(withRank(s, r)))

\* the definitions of s by ascending rank, items of one rank in input order
RECURSIVE StableFrom(_, _)
StableFrom(s, rs) ==
    IF rs = {} THEN <<>>
    ELSE LET r == CHOOSE x \in rs : \A y \in rs : x <= y
         IN  defsOf(withRank(s, r)) \o StableFrom(s, rs \ {r})

StableByRank(s) == StableFrom(s, ranksOf(s))

GroupsAsSpecified(mp, s) ==
    /\ DOMAIN mp = {s[k].dict : k \in 1..Len(s)}
    /\ \A d \in DOMAIN mp : /\ SameBag(mp[d], defsOf(withDict(s, d)))
                            /\ AscendingByRank(mp[d], withDict(s, d))
    /\ (s = <<>> => mp = <<>>)

\* C3: the map byDictionary returns has the distinct dict values of the input
\* as its keys; the value of key d holds exactly the definitions of the items
\* with dict = d, nothing lost or duplicated, in ascending order of their
\* rank; the empty input gives the empty map.
C3_GroupedByDictAndRank == gpc \in {"grouped", "printed"} => GroupsAsSpecified(m, cDs)

C3_Witness ==
    /\ gpc = "grouped" /\ Len(cDs) = MaxLen /\ Cardinality(DOMAIN m) = 2
    /\ \E d \in DOMAIN m : Len(m[d]) = 2 /\ m[d] # defsOf(withDict(cDs, d))

C6_StableSort ==
    gpc = "grouped" => \A d \in DOMAIN m : m[d] = StableByRank(withDict(cDs, d))

\* C6 as amended: items of the same dict and rank keep their input order in
\* groups of at most ShellGap items; in larger groups only the ascending
\* order of the ranks is kept.
C6_StableUpToShellGap ==
    gpc = "grouped" =>
        \A d \in DOMAIN m :
            /\ AscendingByRank(m[d], withDict(cDs, d))
            /\ Len(m[d]) <= ShellGap => m[d] = StableByRank(withDict(cDs, d))

C6_Witness ==
    /\ gpc = "grouped"
    /\ \E d \in DOMAIN m :
          /\ Len(m[d]) = ShellGap
          /\ \E a, b \in 1..Len(withDict(cDs, d)) :
                a < b /\ withDict(cDs, d)[a].rank = withDict(cDs, d)[b].rank
                      /\ withDict(cDs, d)[a].def # withDict(cDs, d)[b].def
          /\ m[d] # defsOf(withDict(cDs, d))

\* C10: no group of the map is empty, so pprintCtxDefs never indexes defs[0]
\* out of range, and for the empty input it writes nothing.
C10_GroupsNonEmpty ==
    /\ gpc \in {"grouped", "printed"} => \A d \in DOMAIN m : Len(m[d]) >= 1
    /\ gpc = "printed" => /\ ~oob
                          /\ (cDs = <<>> => lines = <<>>)
                          /\ (cDs # <<>> => lines # <<>>)

C10_Witness == gpc = "printed" /\ cDs = <<>> /\ lines = <<>>

----------------------------------------------------------------------------
(* main and its goroutines.  Goroutine and channel k here are those of     *)
(* index k - 1 in the source.                                              *)

StatusOK == 200

Words == {"a", "b"}

Payloads ==
    {<<ctxDefinition("A", 0, definition("noun", "x"))>>,
     <<ctxDefinition("B", 0, definition("verb", "y")),
       ctxDefinition("A", 0, definition("noun", "x"))>>}

\* what the network gives to one request: client.Do hangs, fails or returns
\* a response with a status code and a body
Hang == [conn |-> "hang", status |-> 0, html |-> "none", defs |-> <<>>]
Responses ==
    {Hang, [conn |-> "error", status |-> 0, html |-> "none", defs |-> <<>>],
     [conn |-> "ok", status |-> 404, html |-> "ok", defs |-> <<>>],
     [conn |-> "ok", status |-> StatusOK, html |-> "malformed", defs |-> <<>>]}
    \cup {[conn |-> "ok", status |-> StatusOK, html |-> "ok", defs |-> p] : p \in Payloads}

\* wordnikLookup, given what the network answers: (defs, err)
wordnikLookup(r) ==
    IF r.conn = "error" THEN [defs |-> <<>>, err |-> "couldn't connect to wordnik"]
    ELSE IF r.status # StatusOK THEN [defs |-> <<>>, err |-> "200 not returned"]
    ELSE IF r.html = "malformed" THEN [defs |-> <<>>, err |-> "malformed HTML from wordnik"]
    ELSE [defs |-> r.defs, err |-> "nil"]

N == Len(words)

Usage == [kind |-> "usage", text |-> "Provide a word to lookup.", lines |-> <<>>]
WordLine(w) == [kind |-> "word", text |-> w, lines |-> <<>>]
DefsBlock(ls) == [kind |-> "defs", text |-> "", lines |-> ls]

MainInit ==
    /\ words \in SeqsUpTo(Words, MaxWords)
    /\ resp \in [1..Len(words) -> Responses]
    /\ mpc = "args" /\ mi = 0 /\ results = <<>>
    /\ tpc = [k \in 1..Len(words) |-> "unborn"]
    /\ tdefs = [k \in 1..Len(words) |-> <<>>]
    /\ tchan = [k \in 1..Len(words) |-> 0]
    /\ sent = [k \in 1..Len(words) |-> <<>>]
    /\ rcvd = [k \in 1..Len(words) |-> 0]
    /\ got = <<>> /\ out = <<>> /\ returned = <<>> /\ aborted = FALSE /\ abortedBy = -1
    /\ GroupIdle /\ ExtractIdle

RunningAfterPanic == mpc # "done"

\* a panic ends the process with all its goroutines; so does main's return
Running == ~aborted /\ mpc # "done"

\* if len(os.Args) <= 1 { Println(...); return }
MainArgs ==
    /\ Running /\ mpc = "args"
    /\ IF N = 0
       THEN out' = Append(out, Usage) /\ mpc' = "done" /\ mi' = mi
       ELSE out' = out /\ mpc' = "launch" /\ mi' = 1
    /\ UNCHANGED <<words, resp, results, tpc, tdefs, tchan, sent, rcvd, got, returned,
                   aborted, abortedBy, groupVars, extractVars>>

\* one iteration of the first loop: a new channel, and the goroutine started
MainLaunch ==
    /\ Running /\ mpc = "launch"
    /\ results' = Append(results, mi)
    /\ tpc' = [tpc EXCEPT ![mi] = "lookup"]
    /\ IF mi = N THEN mpc' = "header" /\ mi' = 1 ELSE mpc' = "launch" /\ mi' = mi + 1
    /\ UNCHANGED <<words, resp, tdefs, tchan, sent, rcvd, got, out, returned,
                   aborted, abortedBy, groupVars, extractVars>>

\* the second loop: its end, or the word printed before the receive
MainHeader ==
    /\ Running /\ mpc = "header"
    /\ IF mi > Len(results)
       THEN out' = out /\ mpc' = "done"
       ELSE out' = Append(out, WordLine(words[mi])) /\ mpc' = "recv"
    /\ UNCHANGED <<words, resp, mi, results, tpc, tdefs, tchan, sent, rcvd, got, returned,
                   aborted, abortedBy, groupVars, extractVars>>

\* defs, err := wordnikLookup(w, client); if err != nil { panic(err) }
TaskLookup(i) ==
    /\ Running /\ tpc[i] = "lookup" /\ resp[i].conn # "hang"
    /\ LET r == wordnikLookup(resp[i])
       IN  IF r.err # "nil"
           THEN /\ aborted' = TRUE /\ abortedBy' = i
                /\ tpc' = [tpc EXCEPT ![i] = "panicked"]
                /\ UNCHANGED <<tdefs, returned>>
           ELSE /\ tdefs' = [tdefs EXCEPT ![i] = r.defs]
                /\ tpc' = [tpc EXCEPT ![i] = "operand"]
                /\ returned' = Append(returned, i)
                /\ UNCHANGED <<aborted, abortedBy>>
    /\ UNCHANGED <<words, resp, mpc, mi, results, tchan, sent, rcvd, got, out,
                   groupVars, extractVars>>

operandLast(i) == results[Len(results)]

\* the channel operand results[ind], read from the slice main may still be
\* appending to: whatever length main has reached, it is beyond ind
operand(i) == results[i]

\* results[ind] <- defs, up to the point where the send blocks
TaskOperand(i) ==
    /\ Running /\ tpc[i] = "operand"
    /\ tchan' = [tchan EXCEPT ![i] = operand(i)]
    /\ tpc' = [tpc EXCEPT ![i] = "send"]
    /\ UNCHANGED <<words, resp, mpc, mi, results, tdefs, sent, rcvd, got, out, returned,
                   aborted, abortedBy, groupVars, extractVars>>

receivesAnyReady(i) == TRUE

\* main, at <-result, receives from goroutine i when i sends on that channel
receives(i) == tchan[i] = results[mi]

\* the unbuffered channel: the send of goroutine i and the receive of main
Rendezvous(i) ==
    /\ Running /\ mpc = "recv" /\ tpc[i] = "send" /\ receives(i)
    /\ got' = tdefs[i]
    /\ sent' = [sent EXCEPT ![tchan[i]] = Append(@, i)]
    /\ rcvd' = [rcvd EXCEPT ![tchan[i]] = @ + 1]
    /\ tpc' = [tpc EXCEPT ![i] = "done"]
    /\ mpc' = "print"
    /\ UNCHANGED <<words, resp, mi, results, tdefs, tchan, out, returned,
                   aborted, abortedBy, groupVars, extractVars>>

\* pprintCtxDefs(<-result, true), flushed at its end
MainPrint ==
    /\ Running /\ mpc = "print"
    /\ \E mp \in byDictionary(got) : \E o \in Perms(DOMAIN mp) :
          IF pprintPanics(mp, TRUE)
          THEN aborted' = TRUE /\ UNCHANGED <<out, mpc, mi>>
          ELSE /\ out' = Append(out, DefsBlock(pprintLines(mp, o, TRUE)))
               /\ mpc' = "header" /\ mi' = mi + 1
               /\ UNCHANGED aborted
    /\ UNCHANGED <<words, resp, results, tpc, tdefs, tchan, sent, rcvd, got, returned,
                   abortedBy, groupVars, extractVars>>

Next ==
    \/ MainArgs \/ MainLaunch \/ MainHeader \/ MainPrint
    \/ \E i \in 1..N : TaskLookup(i)
    \/ \E i \in 1..N : TaskOperand(i)
    \/ \E i \in 1..N : Rendezvous(i)

Spec == MainInit /\ [][Next]_vars

\* the scheduler runs every goroutine that can take a step
FairSpec ==
    /\ Spec
    /\ WF_vars(MainArgs) /\ WF_vars(MainLaunch) /\ WF_vars(MainHeader) /\ WF_vars(MainPrint)
    /\ \A i \in 1..MaxWords :
          /\ WF_vars(i \in 1..N /\ TaskLookup(i))
          /\ WF_vars(i \in 1..N /\ TaskOperand(i))
          /\ WF_vars(i \in 1..N /\ Rendezvous(i))

----------------------------------------------------------------------------
(* Properties of main and its goroutines (Spec, FairSpec) *)

Succeeds(i) == resp[i].conn # "hang" /\ wordnikLookup(resp[i]).err = "nil"
AllOk == N >= 1 /\ \A i \in 1..N : Succeeds(i)

\* out is the start of: word 1, its definitions, word 2, its definitions, ...
\* each block of definitions being a rendering of what the goroutine of that
\* word got from its lookup
InInputOrder ==
    \A k \in 1..Len(out) :
        IF k % 2 = 1
        THEN out[k] = WordLine(words[(k + 1) \div 2])
        ELSE /\ out[k].kind = "defs"
             /\ tpc[k \div 2] = "done"
             /\ tdefs[k \div 2] = wordnikLookup(resp[k \div 2]).defs
             /\ out[k].lines \in pprintCtxDefs(tdefs[k \div 2], TRUE)

\* C1: when all lookups succeed, whatever the order in which they return,
\* the output is in input order: word i and then the definitions its own
\* goroutine produced, before anything of word i + 1.
C1_OutputInInputOrder == AllOk => InInputOrder

C1_Witness ==
    /\ AllOk /\ N = 2 /\ mpc = "done" /\ Len(out) = 4
    /\ returned = <<2, 1>> /\ tdefs[1] # tdefs[2]

Non200(i) == resp[i].conn = "ok" /\ resp[i].status # StatusOK
AbortedByNon200 == aborted /\ N >= 2 /\ abortedBy \in 1..N /\ Non200(abortedBy)

\* C2 as stated: when a non-200 response aborts a batch of several words,
\* nothing has been printed.
C2_NoOutputAtAbort == AbortedByNon200 => out = <<>>

\* C2 as amended: the batch is aborted and nothing is printed afterwards; at
\* the abort neither the definitions of the failing word nor anything of a
\* later word has been printed, but words before it may have been printed,
\* and the failing word's own header too.
C2_NoOutputFromFailingWordOn ==
    AbortedByNon200 =>
        /\ Len(out) <= 2 * abortedBy - 1
        /\ InInputOrder
        /\ ~ENABLED Next

C2_Witness == AbortedByNon200 /\ abortedBy = 2 /\ Len(out) = 3 /\ out[2].kind = "defs"

\* C5 as stated: the failure of goroutine k aborts the process only while
\* main is blocked receiving from channel k.
C5_AbortOnlyAtSlotRead ==
    (aborted /\ abortedBy \in 1..N) => (mpc = "recv" /\ mi = abortedBy)

\* C5 as amended: the failure of goroutine k aborts the process when the
\* goroutine panics, wherever main is: main has received nothing from
\* channel k and is not past word k, and it may still be starting
\* goroutines, or waiting on or printing an earlier word.
C5_AbortWhenTaskPanics ==
    (aborted /\ abortedBy \in 1..N) =>
        /\ tpc[abortedBy] = "panicked" /\ wordnikLookup(resp[abortedBy]).err # "nil"
        /\ rcvd[abortedBy] = 0 /\ sent[abortedBy] = <<>>
        /\ mpc \in {"launch", "header", "recv", "print"}
        /\ mpc # "launch" => mi <= abortedBy

C5_Witness == aborted /\ abortedBy = 2 /\ mpc = "print" /\ mi = 1

HungAt(k) == k \in 1..N /\ resp[k] = Hang /\ \A j \in 1..N \ {k} : Succeeds(j)

\* C8: when the lookup of word k hangs and the others succeed, the
\* definitions of word k and everything of the later words are never
\* printed, although the later goroutines have their results; the words before
\* k, and only they, get fully reported.
C8_HeadOfLineBlocking ==
    /\ [](\A k \in 1..N : HungAt(k) => /\ Len(out) <= 2 * k - 1
                                       /\ InInputOrder
                                       /\ \A j \in k..N : rcvd[j] = 0)
    /\ \A k \in 1..MaxWords :
          HungAt(k) ~> (/\ Len(out) = 2 * k - 1
                        /\ mpc = "recv" /\ mi = k
                        /\ \A j \in (k + 1)..N : tpc[j] = "send")

C8_Witness ==
    /\ N = 2 /\ HungAt(1) /\ tpc[2] = "send" /\ mpc = "recv" /\ mi = 1
    /\ out = <<WordLine(words[1])>>

ChannelsUsedOnce ==
    \A c \in 1..N : /\ Len(sent[c]) <= 1 /\ rcvd[c] = Len(sent[c])
                    /\ (sent[c] # <<>> => sent[c] = <<c>>)
                    /\ (tchan[c] # 0 => tchan[c] = c)

AllDelivered ==
    /\ Len(out) = 2 * N
    /\ \A c \in 1..N : sent[c] = <<c>> /\ rcvd[c] = 1 /\ tpc[c] = "done"

\* C9: when all lookups succeed, each channel is sent on once, by its own
\* goroutine, and received from once; main prints every word and returns,
\* and then no goroutine is left blocked on its send; nothing deadlocks.
C9_NoDeadlock ==
    /\ [](AllOk => /\ ChannelsUsedOnce
                   /\ (mpc = "done" => AllDelivered)
                   /\ (mpc = "done" \/ ENABLED Next))
    /\ (AllOk ~> (mpc = "done" /\ AllDelivered))

C9_Witness == AllOk /\ N = MaxWords /\ mpc = "done" /\ AllDelivered

----------------------------------------------------------------------------
(* ExtractSpec: the loops of wordnikLookup over the lists of the active     *)
(* module and their items.  A string is the sequence of its characters.    *)
(* The documents visited have one h3 per ul, and the items of one list     *)
(* are alike.                                                              *)

FromPrefixLen == 5

ToUpper(c) == CASE c = "a" -> "A" [] c = "b" -> "B" [] c = "d" -> "D" [] c = "n" -> "N"
                [] OTHER -> c

RECURSIVE TrimLeft(_)
TrimLeft(t) == IF t # <<>> /\ Head(t) = " " THEN TrimLeft(Tail(t)) ELSE t

TrimSpace(t) == Reverse(TrimLeft(Reverse(TrimLeft(t))))

\* d[0], t[0] and the two slice expressions panic out of range
Capitalize(t) == <<ToUpper(t[1])>> \o Tail(t)

dictName(heading) ==
    LET d == Capitalize(SubSeq(heading, FromPrefixLen + 1, Len(heading)))
    IN  IF d[Len(d)] = "." THEN SubSeq(d, 1, Len(d) - 1) ELSE d

dictNamePanics(heading) == Len(heading) <= FromPrefixLen

wordType(item) == TrimSpace(item.abbr \o <<" ">> \o item.i)

defText(item) ==
    Capitalize(TrimSpace(SubSeq(item.text, Len(wordType(item)) + 1, Len(item.text))))

defTextPanics(item) ==
    \/ Len(wordType(item)) > Len(item.text)
    \/ TrimSpace(SubSeq(item.text, Len(wordType(item)) + 1, Len(item.text))) = <<>>

\* rank: uint8(j)
rankOf(j) == uint8(j)

Headings == {<<"f", "r", "o", "m", " ", "a", ".">>, <<"f", "r", "o", "m", " ", "b">>,
             <<"f", "r", "o", "m", " ">>}
RawItems == {[abbr |-> <<"n">>, i |-> <<>>, text |-> <<"n", " ", "d", "o", "g">>],
             [abbr |-> <<>>, i |-> <<"n">>, text |-> <<"n">>]}
ItemCounts == {0, 1, 2, UInt8Mod + 1}
Lists == {[heading |-> h, n |-> c, item |-> it] : h \in Headings, c \in ItemCounts,
                                                    it \in RawItems}

ExtractInit ==
    /\ doc \in SeqsUpTo(Lists, MaxLists)
    /\ xpc = "loop" /\ xi = 1 /\ xj = 0 /\ ret = <<>>
    /\ MainIdle /\ GroupIdle

\* the inner function, for item xj of list xi
ExtractItem ==
    /\ xpc = "loop" /\ xi <= Len(doc) /\ xj < doc[xi].n
    /\ IF dictNamePanics(doc[xi].heading) \/ defTextPanics(doc[xi].item)
       THEN xpc' = "panic" /\ UNCHANGED <<xj, ret>>
       ELSE /\ ret' = Append(ret, ctxDefinition(dictName(doc[xi].heading), rankOf(xj),
                                   definition(wordType(doc[xi].item), defText(doc[xi].item))))
            /\ xj' = xj + 1
            /\ xpc' = xpc
    /\ UNCHANGED <<doc, xi, mainVars, groupVars>>

\* the inner Each is over: the outer Each goes to the next list
ExtractNextList ==
    /\ xpc = "loop" /\ xi <= Len(doc) /\ xj = doc[xi].n
    /\ xi' = xi + 1 /\ xj' = 0
    /\ UNCHANGED <<xpc, doc, ret, mainVars, groupVars>>

\* return ret, nil
ExtractReturn ==
    /\ xpc = "loop" /\ xi > Len(doc)
    /\ xpc' = "done"
    /\ UNCHANGED <<doc, xi, xj, ret, mainVars, groupVars>>

ExtractNext == ExtractItem \/ ExtractNextList \/ ExtractReturn

ExtractSpec == ExtractInit /\ [][ExtractNext]_vars

\* C7: the rank stored for the item at zero-based position j of its list is
\* j, whatever the length of the list.
C7_RankIsPosition ==
    (xpc = "loop" /\ xj > 0) => ret[Len(ret)].rank = xj - 1

====
